---- MODULE Spec2Model ----
(***************************************************************************)
(* Model of the execution engine of src/code_execution.py:                 *)
(* SafeCodeExecutor (execute_code, _create_temp_file,                      *)
(* _get_execution_command, _safe_execute, kill_process,                    *)
(* get_execution_history) and the interactive sessions of                  *)
(* CodeInteractionEngine.                                                  *)
(*                                                                         *)
(* The engine runs on one asyncio event loop: the code between two awaits  *)
(* runs without interleaving, so every action below is the code from one   *)
(* suspension point to the next.  The operating system is the environment: *)
(* a spawned process exits on its own, reacts to SIGTERM or ignores it,    *)
(* and the wall clock advances.  process.terminate() and process.kill()    *)
(* are modelled as signal deliveries that do not raise.                    *)
(***************************************************************************)
EXTENDS Integers, Sequences, FiniteSets, TLC

(***************************************************************************)
(* Bounds of the model.                                                    *)
(***************************************************************************)
\* number of execute_code and execute_in_session calls of the engine specification
NumExec == 2
\* number of execute_code calls of the burst specification
NumBurst == 3
\* length of the histories get_execution_history is applied to
MaxHistory == 3
\* number of concurrent kill_process callers
NumKill == 1
\* the wall clock int(time.time()) runs over 0..MaxTime
MaxTime == 1
\* random.randint(1000, 9999) draws from 1000..1000+NumRand-1
NumRand == 1
\* the collision-retry loop of _create_temp_file runs while counter < MaxCounter
\* (the source's cap is 100; the loop is the same for every cap)
MaxCounter == 1
\* number of start_interactive_session calls
MaxSessions == 1
\* number of start_interactive_session calls where the sessions are the subject
NumSessions == 2
\* get_execution_history is called with limit in 0..MaxLimit
MaxLimit == 4
\* self.max_output_size, the number of characters of an output that are kept
\* (the source's value is 1024 * 1024; the limit is the same for every value)
max_output_size == 2
\* a process writes up to max_output_size + ExtraOutput characters
ExtraOutput == 2

(***************************************************************************)
(* Program constants.                                                      *)
(***************************************************************************)
default_timeout == 30
\* returncode of a process ended by a signal (asyncio reports -signum)
SignalExit(sig) == IF sig = "TERM" THEN 0 - 15 ELSE 0 - 9

Execs == 1..NumExec
Burst == 1..NumBurst
Slots == Execs \cup Burst
Killers == 1..NumKill
Times == 0..MaxTime
Rands == 1000..(1000 + NumRand - 1)

\* the languages callers pass in
LangInputs == {"python", "shell", "cobol"}
\* timeout arguments: 0 stands for None (None and 0 are both falsy in line 89);
\* a caller may pass any int
TimeoutArgs == {0 - 1, 0, 2}
\* exit codes of a program that exits on its own
OwnExitCodes == {0, 1}
\* spawn-level exceptions of create_subprocess_exec
SpawnErrors == {"FileNotFoundError", "PermissionError"}
\* what happens in _setup_process_limits: every limit is set, the resource
\* module is missing, or a setrlimit call is refused
LimitOutcomes == {"applied", "ImportError", "ValueError"}

\* _setup_process_limits: only the ImportError is caught
setup_process_limits(outcome) ==
  IF outcome \in {"applied", "ImportError"} THEN "ok" ELSE "raised"

\* create_subprocess_exec with preexec_fn: an exception of preexec_fn in the
\* child is raised in the parent as SubprocessError and nothing is executed
Spawn(limits, exec) ==
  IF setup_process_limits(limits) = "raised" THEN "SubprocessError" ELSE exec

SpawnOutcomes ==
  {Spawn(limits, exec) : limits \in LimitOutcomes, exec \in {"ok"} \cup SpawnErrors}
\* ids callers pass to kill_process: every id the engine can issue and one it cannot
KillIds == Times \cup {-7}

NoPath == <<-1, 0, 0, "">>
NoCommand == <<"", NoPath>>
\* stderr texts: [kind |-> "proc", n |-> e] is what process e wrote,
\* [kind |-> "timeout", n |-> N] is f"Execution timed out after {N} seconds",
\* [kind |-> "error", text |-> x] is f"Execution error: {x}"
StdErr(kind, n, text) == [kind |-> kind, n |-> n, text |-> text]
\* what a call gave its caller: nothing yet, an ExecutionResult, or a raised error
NoResult == [kind |-> "none", error |-> "", success |-> FALSE, stdout |-> 0,
             stderr |-> StdErr("", 0, ""), exit_code |-> 0,
             command |-> NoCommand, working_directory |-> <<>>]
Raised(error) == [NoResult EXCEPT !.kind = "raised", !.error = error]

(***************************************************************************)
(* Pure helpers.                                                           *)
(***************************************************************************)
\* str.lower() on the language names used here
Lower(s) ==
  CASE s = "Python" -> "python"
    [] s = "PYTHON" -> "python"
    [] s = "Shell" -> "shell"
    [] s = "COBOL" -> "cobol"
    [] OTHER -> s

\* the extensions table of _create_temp_file, with its '.txt' default
extensions(language) ==
  LET l == Lower(language) IN
  CASE l = "python" -> ".py"
    [] l = "javascript" -> ".js"
    [] l = "typescript" -> ".ts"
    [] l = "java" -> ".java"
    [] l = "cpp" -> ".cpp"
    [] l = "c" -> ".c"
    [] l = "go" -> ".go"
    [] l = "rust" -> ".rs"
    [] l = "shell" -> ".sh"
    [] OTHER -> ".txt"

\* temp_dir / f"code_{unique_id}{extension}"  (counter 0)  and
\* temp_dir / f"code_{unique_id}_{counter}{extension}"
TempName(t, r, counter, ext) == <<t, r, counter, ext>>

\* the while loop of _create_temp_file, lines 148-151
RECURSIVE NameLoop(_, _, _, _, _)
NameLoop(existing, t, r, ext, counter) ==
  IF TempName(t, r, counter, ext) \in existing /\ counter < MaxCounter
    THEN NameLoop(existing, t, r, ext, counter + 1)
    ELSE TempName(t, r, counter, ext)

\* _create_temp_file: the path the code is written to
create_temp_file(existing, t, r, language) ==
  NameLoop(existing, t, r, extensions(language), 0)

allowed_commands ==
  {"python", "python3", "node", "npm", "pip", "pip3",
   "gcc", "g++", "javac", "java", "go", "cargo",
   "make", "cmake", "docker", "git"}

CommandLanguages ==
  {"python", "javascript", "typescript", "java", "cpp", "c", "go", "rust", "shell"}

\* a commands table that falls back to python3 for a language it does not have
commands_fallback(language) ==
  LET l == Lower(language) IN
  CASE l = "javascript" -> "node"
    [] l = "typescript" -> "npx"
    [] l = "java" -> "java"
    [] l = "cpp" -> "g++"
    [] l = "c" -> "gcc"
    [] l = "go" -> "go"
    [] l = "rust" -> "rustc"
    [] l = "shell" -> "bash"
    [] OTHER -> "python3"

\* argv[0] of the commands table of _get_execution_command
commands(language) ==
  LET l == Lower(language) IN
  CASE l = "python" -> "python3"
    [] l = "javascript" -> "node"
    [] l = "typescript" -> "npx"
    [] l = "java" -> "java"
    [] l = "cpp" -> "g++"
    [] l = "c" -> "gcc"
    [] l = "go" -> "go"
    [] l = "rust" -> "rustc"
    [] l = "shell" -> "bash"
    [] OTHER -> ""

\* line 186: command[0] not in self.allowed_commands; first, a check that
\* lets every command through
AllowedCheckSkipped(argv0) == TRUE

AllowedCheck(argv0) == argv0 \in allowed_commands

\* _get_execution_command: the command, or the ValueError it raises
get_execution_command(file_path, language) ==
  LET argv0 == commands(language) IN
  IF argv0 = ""
    THEN [ok |-> FALSE, error |-> "Unsupported language", command |-> NoCommand]
    ELSE IF ~AllowedCheck(argv0)
      THEN [ok |-> FALSE, error |-> "Command not allowed", command |-> NoCommand]
      ELSE [ok |-> TRUE, error |-> "", command |-> <<argv0, file_path>>]

\* timeout = timeout or self.default_timeout
EffectiveTimeout(timeout) == IF timeout = 0 THEN default_timeout ELSE timeout

\* temp_file.parent, the working directory execute_code passes to _safe_execute
TempDir == <<"temp">>

\* the three ExecutionResult constructions of _safe_execute
\* a completed result that reports success whatever the exit code
CompletedResultSuccess(command, working_dir, out, err, returncode) ==
  [kind |-> "result", error |-> "", success |-> TRUE, stdout |-> out,
   stderr |-> err, exit_code |-> returncode, command |-> command,
   working_directory |-> working_dir]

CompletedResult(command, working_dir, out, err, returncode) ==
  [kind |-> "result", error |-> "", success |-> (returncode = 0), stdout |-> out,
   stderr |-> err, exit_code |-> returncode, command |-> command,
   working_directory |-> working_dir]

\* a timeout result that reports the default timeout, not the one applied
TimeoutResultDefault(command, working_dir, timeout) ==
  [kind |-> "result", error |-> "", success |-> FALSE, stdout |-> 0,
   stderr |-> StdErr("timeout", default_timeout, ""), exit_code |-> 0 - 1,
   command |-> command, working_directory |-> working_dir]

TimeoutResult(command, working_dir, timeout) ==
  [kind |-> "result", error |-> "", success |-> FALSE, stdout |-> 0,
   stderr |-> StdErr("timeout", timeout, ""), exit_code |-> 0 - 1,
   command |-> command, working_directory |-> working_dir]

\* an error result that drops the exception text
ErrorResultNoText(command, working_dir, exc) ==
  [kind |-> "result", error |-> "", success |-> FALSE, stdout |-> 0,
   stderr |-> StdErr("error", 0, ""), exit_code |-> 0 - 2,
   command |-> command, working_directory |-> working_dir]

ErrorResult(command, working_dir, exc) ==
  [kind |-> "result", error |-> "", success |-> FALSE, stdout |-> 0,
   stderr |-> StdErr("error", 0, exc), exit_code |-> 0 - 2,
   command |-> command, working_directory |-> working_dir]

\* a cleanup that leaves the file in place
UnlinkSkipped(fs, path) == fs

\* finally of execute_code: if temp_file.exists(): temp_file.unlink()
Unlink(fs, path) == fs \ {path}

\* an append that puts the result first
AppendHistoryFront(h, result) == <<result>> \o h

\* self.execution_history.append(result)
AppendHistory(h, result) == Append(h, result)

\* the registry is a dict from process id to process handle; 0 is "no entry"
Registered(reg, id) == id \in DOMAIN reg /\ reg[id] # 0

\* self.active_processes[process_id] = process
Register(reg, id, proc) == [reg EXCEPT ![id] = proc]

\* a cleanup that leaves the entry in the registry
DeregisterSkipped(reg, id) == reg

\* finally of _safe_execute: if process_id in self.active_processes: del ...
Deregister(reg, id) == IF Registered(reg, id) THEN [reg EXCEPT ![id] = 0] ELSE reg

\* self.execution_history[-limit:]: a negative start counts from the end and is
\* clamped to the start of the list, and -0 is 0
get_execution_history(h, limit) ==
  LET start == 0 - limit
      from == IF start < 0
                THEN (IF Len(h) + start < 0 THEN 0 ELSE Len(h) + start)
                ELSE (IF start > Len(h) THEN Len(h) ELSE start)
  IN SubSeq(h, from + 1, Len(h))

(***************************************************************************)
(* State.                                                                  *)
(***************************************************************************)
VARIABLES
  now,                  \* int(time.time())
  files,                \* the files that exist in workspace_dir/temp
  execution_history,    \* SafeCodeExecutor.execution_history
  active_processes,     \* SafeCodeExecutor.active_processes
  sessionObjs,          \* the session dicts ever created, in creation order
  interactive_sessions, \* CodeInteractionEngine.interactive_sessions: id -> dict
  pc,                   \* where each execute_code call stands
  frame,                \* the locals of each execute_code call in flight
  res,                  \* what each call gave its caller
  fileWrites,           \* the number of files each call has written
  pstate,               \* the process each call spawned: none, running, exited,
                        \* killed, or the exception the spawn raised
  returncode,           \* process.returncode
  signals,              \* the signals sent to each process, in order
  kpc,                  \* where each kill_process call stands
  kframe,               \* the locals of each kill_process call
  view,                 \* the last get_execution_history call: limit and value
  info,                 \* what the last get_session_info call gave its caller
  capture               \* the output of a process: as read, and as reported

engineVars == <<execution_history, active_processes, sessionObjs, interactive_sessions>>
callVars == <<pc, frame, res, fileWrites>>
procVars == <<pstate, returncode, signals>>
killVars == <<kpc, kframe>>
readVars == <<view, info, capture>>
vars == <<now, files, engineVars, callVars, procVars, killVars, readVars>>

NoFrame == [language |-> "", timeout |-> 0, temp_file |-> NoPath,
            command |-> NoCommand, process_id |-> 0 - 1, session |-> 0,
            caller |-> "", working_dir |-> <<>>]
NoKFrame == [process_id |-> 0 - 1, process |-> 0]
NoView == [limit |-> 0 - 1, value |-> <<>>]
\* no get_session_info call was made yet
NoInfo == [kind |-> "none", error |-> "", session_id |-> 0 - 1, language |-> "",
           executions_count |-> 0, last_execution |-> NoResult]
\* no process output was read yet
NoCapture == [out |-> <<>>, err |-> <<>>, stdout |-> <<>>, stderr |-> <<>>,
              limited |-> FALSE]

Init ==
  /\ now = 0
  /\ files = {}
  /\ execution_history = <<>>
  /\ active_processes = [id \in Times |-> 0]
  /\ sessionObjs = <<>>
  /\ interactive_sessions = [id \in Times |-> 0]
  /\ pc = [e \in Slots |-> "idle"]
  /\ frame = [e \in Slots |-> NoFrame]
  /\ res = [e \in Slots |-> NoResult]
  /\ fileWrites = [e \in Slots |-> 0]
  /\ pstate = [e \in Slots |-> "none"]
  /\ returncode = [e \in Slots |-> 0]
  /\ signals = [e \in Slots |-> <<>>]
  /\ kpc = [k \in Killers |-> "idle"]
  /\ kframe = [k \in Killers |-> NoKFrame]
  /\ view = NoView
  /\ info = NoInfo
  /\ capture = NoCapture

(***************************************************************************)
(* The environment: the clock and the spawned processes.                   *)
(***************************************************************************)
Tick ==
  /\ now < MaxTime
  /\ now' = now + 1
  /\ UNCHANGED <<files, engineVars, callVars, procVars, killVars, readVars>>

\* the program run by process e exits on its own
ProcessExits(e) ==
  /\ pstate[e] = "running"
  /\ \E code \in OwnExitCodes :
       returncode' = [returncode EXCEPT ![e] = code]
  /\ pstate' = [pstate EXCEPT ![e] = "exited"]
  /\ UNCHANGED <<now, files, engineVars, callVars, signals, killVars, readVars>>

\* process e, sent SIGTERM, dies of it (a process may also ignore SIGTERM)
ProcessTerminates(e) ==
  /\ pstate[e] = "running"
  /\ \E i \in 1..Len(signals[e]) : signals[e][i] = "TERM"
  /\ returncode' = [returncode EXCEPT ![e] = SignalExit("TERM")]
  /\ pstate' = [pstate EXCEPT ![e] = "exited"]
  /\ UNCHANGED <<now, files, engineVars, callVars, signals, killVars, readVars>>

(***************************************************************************)
(* SafeCodeExecutor.execute_code and _safe_execute.                        *)
(***************************************************************************)
\* the calls are numbered in the order in which they are made
NextCall(e) == IF e = 1 THEN TRUE ELSE pc[e - 1] # "idle"

\* process.terminate() and process.kill(): the signal is recorded
SendSignal(sigs, sig) == Append(sigs, sig)

\* a history that takes the new result at its front
SessionAppendFront(objs, session, result) ==
  IF session = 0 THEN objs
  ELSE [objs EXCEPT ![session].execution_history = <<result>> \o @]

\* session["execution_history"].append(result), on the dict the call holds
SessionAppend(objs, session, result) ==
  IF session = 0 THEN objs
  ELSE [objs EXCEPT ![session].execution_history = Append(@, result)]

\* what is remembered of a call that is over: the language it was made with
\* and the temp file it was given
Returned(f) == [NoFrame EXCEPT !.language = f.language, !.temp_file = f.temp_file]

\* The way back to the caller once _safe_execute has a result and has left the
\* registry as reg: lines 112-119 of execute_code (history append, return,
\* finally: unlink) and, for a call made by execute_in_session, lines 803-805.
\* execute_script and the helpers return the result of _safe_execute as it
\* is: they have no temp file and append to no history.
\* There is no await on this way, so it is one step.
ReturnResult(e, f, result, fs, reg) ==
  /\ execution_history' = IF f.caller = "execute_code"
                            THEN AppendHistory(execution_history, result)
                            ELSE execution_history
  /\ files' = Unlink(fs, f.temp_file)
  /\ active_processes' = reg
  /\ sessionObjs' = SessionAppend(sessionObjs, f.session, result)
  /\ res' = [res EXCEPT ![e] = result]
  /\ pc' = [pc EXCEPT ![e] = "done"]
  /\ frame' = [frame EXCEPT ![e] = Returned(f)]

\* an error that is recorded in the session history on its way out
RaiseErrorRecorded(e, f, error, fs) ==
  /\ files' = Unlink(fs, f.temp_file)
  /\ res' = [res EXCEPT ![e] = Raised(error)]
  /\ pc' = [pc EXCEPT ![e] = "raised"]
  /\ frame' = [frame EXCEPT ![e] = Returned(f)]
  /\ sessionObjs' = SessionAppend(sessionObjs, f.session, Raised(error))
  /\ UNCHANGED <<execution_history, active_processes>>

\* A ValueError of _get_execution_command leaves execute_code through its
\* finally (unlink) and, unhandled, leaves execute_in_session too.
RaiseError(e, f, error, fs) ==
  /\ files' = Unlink(fs, f.temp_file)
  /\ res' = [res EXCEPT ![e] = Raised(error)]
  /\ pc' = [pc EXCEPT ![e] = "raised"]
  /\ frame' = [frame EXCEPT ![e] = Returned(f)]
  /\ UNCHANGED <<execution_history, active_processes, sessionObjs>>

\* execute_code from its first line to the await of create_subprocess_exec
\* (lines 89-109 and 217-235).  spawn is what create_subprocess_exec does:
\* "ok", or the exception it raises, which the except of line 302 turns into
\* a result at once.
Start(e, language, timeoutArg, session, r, spawn) ==
  LET timeout == EffectiveTimeout(timeoutArg)
      temp_file == create_temp_file(files, now, r, language)
      written == files \cup {temp_file}
      dispatch == get_execution_command(temp_file, language)
      f == [language |-> language, timeout |-> timeout, temp_file |-> temp_file,
            command |-> dispatch.command, process_id |-> 0 - 1, session |-> session,
            caller |-> "execute_code", working_dir |-> TempDir]
  IN
  /\ pc[e] = "idle"
  /\ NextCall(e)
  /\ fileWrites' = [fileWrites EXCEPT ![e] = @ + 1]
  /\ IF ~dispatch.ok
       THEN /\ RaiseError(e, f, dispatch.error, written)
            /\ UNCHANGED procVars
       ELSE IF spawn # "ok"
         THEN /\ ReturnResult(e, f, ErrorResult(dispatch.command, f.working_dir, spawn),
                              written, active_processes)
              /\ pstate' = [pstate EXCEPT ![e] = spawn]
              /\ UNCHANGED <<returncode, signals>>
         ELSE /\ files' = written
              /\ pc' = [pc EXCEPT ![e] = "spawned"]
              /\ frame' = [frame EXCEPT ![e] = f]
              /\ pstate' = [pstate EXCEPT ![e] = "running"]
              /\ UNCHANGED <<execution_history, active_processes, sessionObjs,
                             res, returncode, signals>>

\* a direct call of SafeCodeExecutor.execute_code
execute_code(e) ==
  /\ \E language \in LangInputs, timeout \in TimeoutArgs, r \in Rands,
        spawn \in SpawnOutcomes :
       Start(e, language, timeout, 0, r, spawn)
  /\ UNCHANGED <<now, interactive_sessions, killVars, readVars>>

\* _safe_execute lines 237-244: the process is registered under
\* f"exec_{int(time.time())}" and the call awaits communicate() under the timeout
ProcessId(t) == t

RegisterProcess(e) ==
  /\ pc[e] = "spawned"
  /\ frame' = [frame EXCEPT ![e].process_id = ProcessId(now)]
  /\ active_processes' = Register(active_processes, ProcessId(now), e)
  /\ pc' = [pc EXCEPT ![e] = "waiting"]
  /\ UNCHANGED <<now, files, execution_history, sessionObjs, interactive_sessions,
                 res, fileWrites, procVars, killVars, readVars>>

\* _safe_execute lines 246-271 and 298-300: communicate() returned before the
\* deadline, the process has exited
\* (the outputs of the programs run here are shorter than max_output_size, so
\* lines 249-254 leave them as read; LimitOutput below is that part)
Completed(e) ==
  /\ pc[e] = "waiting"
  /\ pstate[e] # "running"
  /\ ReturnResult(e, frame[e],
                  CompletedResult(frame[e].command, frame[e].working_dir, e,
                                  StdErr("proc", e, ""), returncode[e]),
                  files, Deregister(active_processes, frame[e].process_id))
  /\ UNCHANGED <<now, interactive_sessions, fileWrites, procVars, killVars, readVars>>

\* _safe_execute lines 273-277: the deadline elapsed with the process still
\* running; terminate() and the wait of up to 5 seconds for its exit
TimedOut(e) ==
  /\ pc[e] = "waiting"
  /\ pstate[e] = "running"
  /\ signals' = [signals EXCEPT ![e] = SendSignal(@, "TERM")]
  /\ pc' = [pc EXCEPT ![e] = "grace"]
  /\ UNCHANGED <<now, files, engineVars, frame, res, fileWrites, pstate,
                 returncode, killVars, readVars>>

\* an escalation that never kills
ForceKillSkipped(state) == state

\* what the wait of up to 5 seconds ends with: kill() if the process is still
\* running when the 5 seconds are over (lines 278-279, 381-382)
ForceKill(state) == IF state = "running" THEN "killed" ELSE state

\* the two waits for the exit after terminate(): wait_for(process.wait(),
\* timeout=5) in the timeout handler and in kill_process
TimeoutGrace == 5
KillGrace == 5

\* an escalation that sends the kill whether or not the process has exited
EndOfGraceAlwaysKills(p) ==
  /\ pstate' = [pstate EXCEPT ![p] = ForceKill(@)]
  /\ signals' = [signals EXCEPT ![p] = SendSignal(@, "KILL")]
  /\ IF pstate[p] = "running"
       THEN returncode' = [returncode EXCEPT ![p] = SignalExit("KILL")]
       ELSE UNCHANGED returncode

EndOfGrace(p) ==
  /\ pstate' = [pstate EXCEPT ![p] = ForceKill(@)]
  /\ IF pstate[p] = "running"
       THEN /\ signals' = [signals EXCEPT ![p] = SendSignal(@, "KILL")]
            /\ returncode' = [returncode EXCEPT ![p] = SignalExit("KILL")]
       ELSE UNCHANGED <<signals, returncode>>

\* a return that, instead of killing, waits until the process has exited
TimeoutReturnAwaitsExit(e) ==
  /\ pc[e] = "grace"
  /\ pstate[e] # "running"
  /\ EndOfGrace(e)
  /\ ReturnResult(e, frame[e],
                  TimeoutResult(frame[e].command, frame[e].working_dir, frame[e].timeout),
                  files, Deregister(active_processes, frame[e].process_id))
  /\ UNCHANGED <<now, interactive_sessions, fileWrites, killVars, readVars>>

\* _safe_execute lines 277-300: the grace wait ended, the timeout result
TimeoutReturn(e) ==
  /\ pc[e] = "grace"
  /\ EndOfGrace(e)
  /\ ReturnResult(e, frame[e],
                  TimeoutResult(frame[e].command, frame[e].working_dir, frame[e].timeout),
                  files, Deregister(active_processes, frame[e].process_id))
  /\ UNCHANGED <<now, interactive_sessions, fileWrites, killVars, readVars>>

(***************************************************************************)
(* SafeCodeExecutor.kill_process.                                          *)
(***************************************************************************)
\* line 375: if process_id in self.active_processes
KillLookup(reg, id) == Registered(reg, id)

\* a kill_process that reports success for an id it did not find
KillMissTrue == "true"

\* line 388: return False
KillMiss == "false"

\* lines 375-380, or line 388: an unknown id returns False at once; a known one
\* gets terminate() and the call awaits the exit for up to 5 seconds
kill_process(k, id) ==
  /\ kpc[k] \in {"idle", "false"}
  /\ IF KillLookup(active_processes, id)
       THEN /\ signals' = [signals EXCEPT ![active_processes[id]] = SendSignal(@, "TERM")]
            /\ kframe' = [kframe EXCEPT ![k] =
                            [process_id |-> id, process |-> active_processes[id]]]
            /\ kpc' = [kpc EXCEPT ![k] = "wait"]
       ELSE /\ kpc' = [kpc EXCEPT ![k] = KillMiss]
            /\ UNCHANGED <<signals, kframe>>
  /\ UNCHANGED <<now, files, engineVars, callVars, pstate, returncode, readVars>>

\* a kill_process that reports False after it has ended the process
KillReturnFalse(k) ==
  /\ kpc[k] = "wait"
  /\ EndOfGrace(kframe[k].process)
  /\ active_processes' = Deregister(active_processes, kframe[k].process_id)
  /\ kpc' = [kpc EXCEPT ![k] = "false"]
  /\ UNCHANGED <<now, files, execution_history, sessionObjs, interactive_sessions,
                 callVars, kframe, readVars>>

\* lines 381-386: kill() if the wait timed out, then del and return True; the
\* del raises KeyError when the id has left the registry during the wait
KillReturn(k) ==
  /\ kpc[k] = "wait"
  /\ EndOfGrace(kframe[k].process)
  /\ IF Registered(active_processes, kframe[k].process_id)
       THEN /\ active_processes' = [active_processes EXCEPT ![kframe[k].process_id] = 0]
            /\ kpc' = [kpc EXCEPT ![k] = "true"]
       ELSE /\ kpc' = [kpc EXCEPT ![k] = "raised"]
            /\ UNCHANGED active_processes
  /\ UNCHANGED <<now, files, execution_history, sessionObjs, interactive_sessions,
                 callVars, kframe, readVars>>

(***************************************************************************)
(* SafeCodeExecutor.execute_script and the helpers of TestRunner,          *)
(* BuildSystem and CodeInteractionEngine that call _safe_execute           *)
(* themselves.                                                             *)
(***************************************************************************)
\* the suffixes of the scripts callers pass in
ScriptExts == {".py", ".sh", ".bin"}
\* a script file, which is not one of the temp files
ScriptPath(ext) == <<0 - 2, 0, 0, ext>>
\* script_path.parent
ScriptDir == <<"scripts">>

\* lines 354-363: argv[0] by suffix; any other script is executed directly
\* ("script" is str(script_path))
ScriptCommand(ext) ==
  CASE ext = ".py" -> "python3"
    [] ext \in {".js", ".mjs"} -> "node"
    [] ext = ".sh" -> "bash"
    [] OTHER -> "script"

\* _safe_execute entered with command and timeout by a caller other than
\* execute_code, up to the await of create_subprocess_exec (lines 217-235,
\* 302-318)
Supervise(e, caller, command, working_dir, timeout, spawn) ==
  LET f == [NoFrame EXCEPT !.language = caller, !.timeout = timeout,
                           !.command = command, !.caller = caller,
                           !.working_dir = working_dir]
  IN
  /\ pc[e] = "idle"
  /\ NextCall(e)
  /\ IF spawn # "ok"
       THEN /\ ReturnResult(e, f, ErrorResult(command, working_dir, spawn),
                            files, active_processes)
            /\ pstate' = [pstate EXCEPT ![e] = spawn]
            /\ UNCHANGED <<returncode, signals>>
       ELSE /\ pc' = [pc EXCEPT ![e] = "spawned"]
            /\ frame' = [frame EXCEPT ![e] = f]
            /\ pstate' = [pstate EXCEPT ![e] = "running"]
            /\ UNCHANGED <<files, execution_history, active_processes,
                           sessionObjs, res, returncode, signals>>
  /\ UNCHANGED <<now, interactive_sessions, fileWrites, killVars, readVars>>

\* execute_script (lines 344-370): FileNotFoundError for a missing script,
\* else the command is run as it is
execute_script(e, ext, exists, timeoutArg, spawn) ==
  IF ~exists
    THEN /\ pc[e] = "idle"
         /\ NextCall(e)
         /\ res' = [res EXCEPT ![e] = Raised("Script not found")]
         /\ pc' = [pc EXCEPT ![e] = "raised"]
         /\ UNCHANGED <<now, files, engineVars, frame, fileWrites, procVars,
                        killVars, readVars>>
    ELSE Supervise(e, "execute_script", <<ScriptCommand(ext), ScriptPath(ext)>>,
                   ScriptDir, EffectiveTimeout(timeoutArg), spawn)

\* helper calls of _safe_execute: ['npm', 'install'] with timeout 300 (lines
\* 587-591), ['python3', '-m', 'flake8', ...] with timeout 60 (lines 656-660),
\* ['npx', 'eslint', '.'] with timeout 60 (lines 683-687)
HelperCalls ==
  {[argv0 |-> "npm", timeout |-> 300],
   [argv0 |-> "python3", timeout |-> 60],
   [argv0 |-> "npx", timeout |-> 60]}
\* project_path
ProjectDir == <<"project">>

run_helper(e, call, spawn) ==
  Supervise(e, "helper", <<call.argv0, NoPath>>, ProjectDir, call.timeout, spawn)

NextScripts ==
  \/ \E e \in Execs, ext \in ScriptExts, exists \in BOOLEAN,
        timeoutArg \in TimeoutArgs, spawn \in SpawnOutcomes :
       execute_script(e, ext, exists, timeoutArg, spawn)
  \/ \E e \in Execs, call \in HelperCalls, spawn \in SpawnOutcomes :
       run_helper(e, call, spawn)
  \/ \E e \in Execs : ProcessExits(e)
  \/ \E e \in Execs : ProcessTerminates(e)
  \/ \E e \in Execs : RegisterProcess(e)
  \/ \E e \in Execs : Completed(e)
  \/ \E e \in Execs : TimedOut(e)
  \/ \E e \in Execs : TimeoutReturn(e)

(***************************************************************************)
(* CodeInteractionEngine: interactive sessions.                            *)
(***************************************************************************)
\* f"session_{int(time.time())}"
SessionId(t) == t
SessionIds == Times \cup {0 - 7}

\* str(self.executor.workspace_dir / session_id)
SessionDir(session_id) == <<"session", session_id>>

\* start_interactive_session (lines 764-783): a new dict is stored under the
\* id, replacing whatever the id mapped to
CreateSession(language) ==
  /\ sessionObjs' = Append(sessionObjs,
                           [session_id |-> SessionId(now), language |-> language,
                            execution_history |-> <<>>,
                            working_directory |-> SessionDir(SessionId(now))])
  /\ interactive_sessions' =
       [interactive_sessions EXCEPT ![SessionId(now)] = Len(sessionObjs) + 1]
  /\ UNCHANGED <<now, files, execution_history, active_processes, callVars,
                 procVars, killVars, readVars>>

start_interactive_session(language) ==
  /\ Len(sessionObjs) < MaxSessions
  /\ CreateSession(language)

\* a refusal that comes after the temp file was written
SessionNotFoundLate(e) ==
  /\ res' = [res EXCEPT ![e] = Raised("Session not found")]
  /\ pc' = [pc EXCEPT ![e] = "raised"]
  /\ fileWrites' = [fileWrites EXCEPT ![e] = @ + 1]
  /\ UNCHANGED <<files, execution_history, active_processes, sessionObjs,
                 frame, procVars>>

\* execute_in_session lines 790-791: raise ValueError("Session not found: ...")
SessionNotFound(e) ==
  /\ res' = [res EXCEPT ![e] = Raised("Session not found")]
  /\ pc' = [pc EXCEPT ![e] = "raised"]
  /\ UNCHANGED <<files, execution_history, active_processes, sessionObjs,
                 frame, fileWrites, procVars>>

\* execute_in_session: ValueError for an unknown id, else execute_code with the
\* session's language (and no timeout argument)
execute_in_session(e, session_id) ==
  /\ IF ~Registered(interactive_sessions, session_id)
       THEN /\ pc[e] = "idle"
            /\ NextCall(e)
            /\ SessionNotFound(e)
       ELSE \E r \in Rands, spawn \in SpawnOutcomes :
              Start(e, sessionObjs[interactive_sessions[session_id]].language, 0,
                    interactive_sessions[session_id], r, spawn)
  /\ UNCHANGED <<now, interactive_sessions, killVars, readVars>>

\* session["execution_history"][-1] if session["execution_history"] else None
LastExecution(h) == IF h = <<>> THEN NoResult ELSE h[Len(h)]

\* the two dicts get_session_info returns
SessionInfo(session_id, session) ==
  [kind |-> "value", error |-> "", session_id |-> session_id,
   language |-> session.language,
   executions_count |-> Len(session.execution_history),
   last_execution |-> LastExecution(session.execution_history)]

InfoError(error) ==
  [kind |-> "value", error |-> error, session_id |-> 0 - 1, language |-> "",
   executions_count |-> 0, last_execution |-> NoResult]

\* get_session_info (lines 810-821): it has no await and changes nothing
get_session_info(session_id) ==
  /\ info' = IF ~Registered(interactive_sessions, session_id)
               THEN InfoError("Session not found")
               ELSE SessionInfo(session_id,
                                sessionObjs[interactive_sessions[session_id]])
  /\ UNCHANGED <<now, files, engineVars, callVars, procVars, killVars, view,
                 capture>>

(***************************************************************************)
(* The specification of the engine.                                        *)
(***************************************************************************)
Next ==
  \/ Tick
  \/ \E e \in Execs : ProcessExits(e)
  \/ \E e \in Execs : ProcessTerminates(e)
  \/ \E e \in Execs : execute_code(e)
  \/ \E e \in Execs : RegisterProcess(e)
  \/ \E e \in Execs : Completed(e)
  \/ \E e \in Execs : TimedOut(e)
  \/ \E e \in Execs : TimeoutReturn(e)
  \/ \E k \in Killers, id \in KillIds : kill_process(k, id)
  \/ \E k \in Killers : KillReturn(k)
  \/ \E language \in LangInputs : start_interactive_session(language)
  \/ \E e \in Execs, session_id \in SessionIds : execute_in_session(e, session_id)

Spec == Init /\ [][Next]_vars

\* The event loop resumes a call whose await is over: the registration that
\* follows the spawn, the return of communicate() once the process has
\* exited, the deadline of wait_for while it has not, and the end of the
\* wait of up to 5 seconds.  Nothing makes a process exit or a caller call.
Fairness ==
  \A e \in Execs :
    /\ WF_vars(RegisterProcess(e))
    /\ WF_vars(Completed(e))
    /\ WF_vars(TimedOut(e))
    /\ WF_vars(TimeoutReturn(e))

\* the executor on its own, without the sessions of CodeInteractionEngine
NextExecutor ==
  \/ Tick
  \/ \E e \in Execs : ProcessExits(e)
  \/ \E e \in Execs : ProcessTerminates(e)
  \/ \E e \in Execs : execute_code(e)
  \/ \E e \in Execs : RegisterProcess(e)
  \/ \E e \in Execs : Completed(e)
  \/ \E e \in Execs : TimedOut(e)
  \/ \E e \in Execs : TimeoutReturn(e)
  \/ \E k \in Killers, id \in KillIds : kill_process(k, id)
  \/ \E k \in Killers : KillReturn(k)

SpecFair == Init /\ [][NextExecutor]_vars /\ Fairness

(***************************************************************************)
(* A burst of execute_code calls made within one second, with no           *)
(* kill_process and no sessions: the same actions, more calls.             *)
(***************************************************************************)
NextBurst ==
  \/ \E e \in Burst : ProcessExits(e)
  \/ \E e \in Burst : ProcessTerminates(e)
  \/ \E e \in Burst : execute_code(e)
  \/ \E e \in Burst : RegisterProcess(e)
  \/ \E e \in Burst : Completed(e)
  \/ \E e \in Burst : TimedOut(e)
  \/ \E e \in Burst : TimeoutReturn(e)

SpecBurst == Init /\ [][NextBurst]_vars

(***************************************************************************)
(* The interactive sessions on their own: up to NumSessions sessions, every *)
(* execution made through execute_in_session, and get_session_info; no     *)
(* kill_process.                                                           *)
(***************************************************************************)
StartSession(language) ==
  /\ Len(sessionObjs) < NumSessions
  /\ CreateSession(language)

NextSessions ==
  \/ Tick
  \/ \E language \in LangInputs : StartSession(language)
  \/ \E e \in Execs, session_id \in SessionIds : execute_in_session(e, session_id)
  \/ \E session_id \in SessionIds : get_session_info(session_id)
  \/ \E e \in Execs : ProcessExits(e)
  \/ \E e \in Execs : ProcessTerminates(e)
  \/ \E e \in Execs : RegisterProcess(e)
  \/ \E e \in Execs : Completed(e)
  \/ \E e \in Execs : TimedOut(e)
  \/ \E e \in Execs : TimeoutReturn(e)

SpecSessions == Init /\ [][NextSessions]_vars

\* execute_script and the helpers on their own
SpecScripts == Init /\ [][NextScripts]_vars

(***************************************************************************)
(* _get_execution_command applied to every language of its table, and to   *)
(* one it does not have, in the spellings Lower knows: execute_code at     *)
(* line 101, after the timeout was defaulted and the temp file written.    *)
(***************************************************************************)
DispatchLangs == CommandLanguages \cup {"Python", "PYTHON", "Shell", "cobol", "COBOL"}

InitDispatch ==
  /\ now \in Times
  /\ execution_history = <<>>
  /\ active_processes = [id \in Times |-> 0]
  /\ sessionObjs = <<>>
  /\ interactive_sessions = [id \in Times |-> 0]
  /\ pc = [e \in Slots |-> "idle"]
  /\ \E language \in DispatchLangs, timeoutArg \in TimeoutArgs, r \in Rands :
       /\ frame = [e \in Slots |->
                    IF e = 1
                      THEN [NoFrame EXCEPT
                              !.language = language,
                              !.timeout = EffectiveTimeout(timeoutArg),
                              !.temp_file = create_temp_file({}, now, r, language),
                              !.caller = "execute_code",
                              !.working_dir = TempDir]
                      ELSE NoFrame]
       /\ files = {create_temp_file({}, now, r, language)}
  /\ res = [e \in Slots |-> NoResult]
  /\ fileWrites = [e \in Slots |-> IF e = 1 THEN 1 ELSE 0]
  /\ pstate = [e \in Slots |-> "none"]
  /\ returncode = [e \in Slots |-> 0]
  /\ signals = [e \in Slots |-> <<>>]
  /\ kpc = [k \in Killers |-> "idle"]
  /\ kframe = [k \in Killers |-> NoKFrame]
  /\ view = NoView
  /\ info = NoInfo
  /\ capture = NoCapture

\* line 101: command = self._get_execution_command(temp_file, language); a
\* ValueError leaves execute_code through the finally
Dispatch(e) ==
  LET dispatch == get_execution_command(frame[e].temp_file, frame[e].language) IN
  /\ pc[e] = "idle"
  /\ frame[e].caller = "execute_code"
  /\ IF dispatch.ok
       THEN /\ frame' = [frame EXCEPT ![e].command = dispatch.command]
            /\ pc' = [pc EXCEPT ![e] = "dispatched"]
            /\ UNCHANGED <<files, execution_history, active_processes,
                           sessionObjs, res>>
       ELSE RaiseError(e, frame[e], dispatch.error, files)
  /\ UNCHANGED <<now, interactive_sessions, fileWrites, procVars, killVars,
                 readVars>>

NextDispatch == \E e \in Execs : Dispatch(e)

SpecDispatch == InitDispatch /\ [][NextDispatch]_vars

(***************************************************************************)
(* get_execution_history applied to the histories of up to MaxHistory      *)
(* results.                                                                *)
(***************************************************************************)
SampleCommand == <<"python3", <<0, 1000, 0, ".py">>>>
SampleResults ==
  {CompletedResult(SampleCommand, TempDir, 1, StdErr("proc", 1, ""), 0),
   TimeoutResult(SampleCommand, TempDir, default_timeout),
   ErrorResult(SampleCommand, TempDir, "FileNotFoundError")}

Histories == UNION {[1..n -> SampleResults] : n \in 0..MaxHistory}

InitHistory ==
  /\ now = 0
  /\ files = {}
  /\ execution_history \in Histories
  /\ active_processes = [id \in Times |-> 0]
  /\ sessionObjs = <<>>
  /\ interactive_sessions = [id \in Times |-> 0]
  /\ pc = [e \in Slots |-> "idle"]
  /\ frame = [e \in Slots |-> NoFrame]
  /\ res = [e \in Slots |-> NoResult]
  /\ fileWrites = [e \in Slots |-> 0]
  /\ pstate = [e \in Slots |-> "none"]
  /\ returncode = [e \in Slots |-> 0]
  /\ signals = [e \in Slots |-> <<>>]
  /\ kpc = [k \in Killers |-> "idle"]
  /\ kframe = [k \in Killers |-> NoKFrame]
  /\ view = NoView
  /\ info = NoInfo
  /\ capture = NoCapture

\* a caller reads the history: return self.execution_history[-limit:]
GetHistory(limit) ==
  /\ view' = [limit |-> limit, value |-> get_execution_history(execution_history, limit)]
  /\ UNCHANGED <<now, files, engineVars, callVars, procVars, killVars, info,
                 capture>>

NextHistory == \E limit \in 0..MaxLimit : GetHistory(limit)

SpecHistory == InitHistory /\ [][NextHistory]_vars

(***************************************************************************)
(* The output limit of _safe_execute, applied to the outputs of up to      *)
(* max_output_size + ExtraOutput characters that communicate() can return. *)
(* A string is the sequence of its characters.                             *)
(***************************************************************************)
\* "\n... [Output truncated]"
OutputMarker ==
  <<"\n", ".", ".", ".", " ", "[", "O", "u", "t", "p", "u", "t", " ", "t",
    "r", "u", "n", "c", "a", "t", "e", "d", "]">>

\* "\n... [Error output truncated]"
ErrorMarker ==
  <<"\n", ".", ".", ".", " ", "[", "E", "r", "r", "o", "r", " ", "o", "u",
    "t", "p", "u", "t", " ", "t", "r", "u", "n", "c", "a", "t", "e", "d",
    "]">>

\* a limit that cuts an output of exactly max_output_size characters too
LimitAtCap(text, marker) ==
  IF Len(text) >= max_output_size
    THEN SubSeq(text, 1, max_output_size) \o marker
    ELSE text

\* if len(text) > self.max_output_size:
\*     text = text[:self.max_output_size] + marker
Limit(text, marker) ==
  IF Len(text) > max_output_size
    THEN SubSeq(text, 1, max_output_size) \o marker
    ELSE text

OutputChars == {"a", "b"}
RECURSIVE Texts(_)
Texts(n) ==
  IF n = 0 THEN {<<>>}
  ELSE Texts(n - 1) \cup {Append(t, c) : t \in Texts(n - 1), c \in OutputChars}
Outputs == Texts(max_output_size + ExtraOutput)

InitOutput ==
  /\ now = 0
  /\ files = {}
  /\ execution_history = <<>>
  /\ active_processes = [id \in Times |-> 0]
  /\ sessionObjs = <<>>
  /\ interactive_sessions = [id \in Times |-> 0]
  /\ pc = [e \in Slots |-> "idle"]
  /\ frame = [e \in Slots |-> NoFrame]
  /\ res = [e \in Slots |-> NoResult]
  /\ fileWrites = [e \in Slots |-> 0]
  /\ pstate = [e \in Slots |-> "none"]
  /\ returncode = [e \in Slots |-> 0]
  /\ signals = [e \in Slots |-> <<>>]
  /\ kpc = [k \in Killers |-> "idle"]
  /\ kframe = [k \in Killers |-> NoKFrame]
  /\ view = NoView
  /\ info = NoInfo
  /\ capture \in {[NoCapture EXCEPT !.out = o, !.err = e] : o, e \in Outputs}

\* lines 246-254: the decoded stdout and stderr are limited, each with its
\* own marker
LimitOutput ==
  /\ ~capture.limited
  /\ capture' = [capture EXCEPT !.stdout = Limit(capture.out, OutputMarker),
                                !.stderr = Limit(capture.err, ErrorMarker),
                                !.limited = TRUE]
  /\ UNCHANGED <<now, files, engineVars, callVars, procVars, killVars, view,
                 info>>

NextOutput == LimitOutput

SpecOutput == InitOutput /\ [][NextOutput]_vars

(***************************************************************************)
(* The claims.                                                             *)
(***************************************************************************)
InFlight(e) == pc[e] \in {"spawned", "waiting", "grace"}
Over(e) == pc[e] \in {"done", "raised"}
\* the call entered execute_code (a call that execute_in_session refused did not)
Entered(e) == frame[e].language # ""
\* the call returned the timeout result
IsTimeoutResult(r) == r.kind = "result" /\ r.stderr.kind = "timeout"
RegisteredProcess(e) == \E id \in Times : active_processes[id] = e

\* C1: on the step on which an execute_code call ends, by returning a result
\* (process completed, timed out, spawn failed) or by raising a dispatch error,
\* the temp file allocated for the call does not exist in the temp directory.
C1_TempFileRemoved ==
  [][\A e \in Slots :
       (~Over(e) /\ Over(e)' /\ Entered(e)')
         => /\ frame'[e].temp_file # NoPath
            /\ frame'[e].temp_file \notin files']_vars

\* calls that ended on three of the exit paths, each with its temp file gone
C1_Witness ==
  \E a, b \in Slots :
    /\ res[a] = Raised("Command not allowed")
    /\ IsTimeoutResult(res[b])
    /\ fileWrites[a] = 1 /\ fileWrites[b] = 1
    /\ frame[a].temp_file \notin files
    /\ frame[b].temp_file \notin files

\* C2: a call whose deadline elapsed with its process still running (it is in
\* the grace wait) ends only by returning success=false, exit_code=-1 and
\* "Execution timed out after N seconds" with N the timeout applied, whatever
\* the exit code of the process.
C2_TimeoutResult ==
  [][\A e \in Slots :
       pc[e] = "grace"
         => \/ pc'[e] = "grace" /\ res'[e] = NoResult
            \/ /\ pc'[e] = "done"
               /\ res'[e].kind = "result"
               /\ res'[e].success = FALSE
               /\ res'[e].exit_code = 0 - 1
               /\ res'[e].stderr = StdErr("timeout", frame[e].timeout, "")
               /\ frame[e].timeout \in {EffectiveTimeout(t) : t \in TimeoutArgs}]_vars

\* a call with timeout 2 returned the timeout result although its process
\* exited with code 0 during the grace wait
C2_Witness ==
  \E e \in Slots :
    /\ pc[e] = "done"
    /\ res[e].exit_code = 0 - 1
    /\ res[e].stderr = StdErr("timeout", 2, "")
    /\ pstate[e] = "exited" /\ returncode[e] = 0

\* C3: once a call has returned its timeout result, the process it spawned
\* is not running (it exited or was killed) and is not in the registry.
C3_NoLiveProcessAfterTimeout ==
  \A e \in Slots :
    (pc[e] = "done" /\ IsTimeoutResult(res[e]))
      => /\ pstate[e] \in {"exited", "killed"}
         /\ ~RegisteredProcess(e)

\* a call returned its timeout result after killing a process that ignored
\* SIGTERM
C3_Witness ==
  \E e \in Slots :
    /\ pc[e] = "done" /\ IsTimeoutResult(res[e])
    /\ pstate[e] = "killed"
    /\ signals[e] = <<"TERM", "KILL">>

\* C4: two calls in flight at the same time have different temp files, and a
\* result made from a completed process carries the output and the exit code
\* of the process of its own call.
C4_DisjointPathsOwnOutput ==
  /\ \A a, b \in Slots :
       (a # b /\ InFlight(a) /\ InFlight(b))
         => frame[a].temp_file # frame[b].temp_file
  /\ \A e \in Slots :
       (pc[e] = "done" /\ res[e].stderr.kind = "proc")
         => /\ res[e].stdout = e
            /\ res[e].stderr.n = e
            /\ res[e].exit_code = returncode[e]

\* C5 as stated: a call with a language absent from the command table raises
\* the unsupported-language error, has written no file and has spawned no
\* process.
C5_NoFileWritten ==
  \A e \in Slots :
    (Over(e) /\ Entered(e) /\ Lower(frame[e].language) \notin CommandLanguages)
      => /\ res[e] = Raised("Unsupported language")
         /\ fileWrites[e] = 0
         /\ pstate[e] = "none"

\* C5 as amended: a call with a language absent from the command table raises
\* the unsupported-language error and has spawned no process; it has written
\* its temp file once and removed it again before the error reached the
\* caller, and it has added nothing to the history.
C5_UnsupportedLanguage ==
  \A e \in Slots :
    (Over(e) /\ Entered(e) /\ Lower(frame[e].language) \notin CommandLanguages)
      => /\ res[e] = Raised("Unsupported language")
         /\ pstate[e] = "none"
         /\ fileWrites[e] = 1
         /\ frame[e].temp_file \notin files
         /\ \A i \in 1..Len(execution_history) :
              execution_history[i].command[2] # frame[e].temp_file

\* a cobol call raised the unsupported-language error
C5_Witness ==
  \E e \in Slots :
    /\ frame[e].language = "cobol"
    /\ res[e] = Raised("Unsupported language")
    /\ fileWrites[e] = 1 /\ pstate[e] = "none"

\* C6: a call whose language resolves to a command with an argv[0] outside
\* the allow-list raises the command-not-allowed error and has spawned no
\* process.
C6_CommandNotAllowed ==
  \A e \in Slots :
    (Over(e) /\ Entered(e)
       /\ Lower(frame[e].language) \in CommandLanguages
       /\ commands(frame[e].language) \notin allowed_commands)
      => /\ res[e] = Raised("Command not allowed")
         /\ pstate[e] = "none"

\* a shell call (bash is not in the allow-list) raised command-not-allowed
C6_Witness ==
  \E e \in Slots :
    /\ frame[e].language = "shell"
    /\ res[e] = Raised("Command not allowed")
    /\ pstate[e] = "none"

\* C7: a call whose spawn raised has returned (not raised) a result with
\* success=false, exit_code=-2 and the exception text in stderr; it is in the
\* history, and no registry entry was made for it.
C7_SpawnFailure ==
  \A e \in Slots :
    pstate[e] \in SpawnErrors
      => /\ pc[e] = "done"
         /\ res[e].kind = "result"
         /\ res[e].success = FALSE
         /\ res[e].exit_code = 0 - 2
         /\ res[e].stderr = StdErr("error", 0, pstate[e])
         /\ frame[e].process_id = 0 - 1
         /\ ~RegisteredProcess(e)

\* a spawn failed with PermissionError while another call's process is
\* registered
C7_Witness ==
  \E a, b \in Slots :
    /\ pstate[a] = "PermissionError"
    /\ res[a].exit_code = 0 - 2
    /\ pc[b] = "waiting" /\ RegisteredProcess(b)

\* C8: a kill_process call with an id that is not in the registry returns
\* False without raising and changes neither the registry nor the history nor
\* the sessions, so that the id is still unknown to the next call.
C8_KillUnknownId ==
  [][\A k \in Killers, id \in KillIds :
       (kill_process(k, id) /\ ~Registered(active_processes, id))
         => /\ kpc'[k] = "false"
            /\ active_processes' = active_processes
            /\ execution_history' = execution_history
            /\ sessionObjs' = sessionObjs
            /\ interactive_sessions' = interactive_sessions
            /\ signals' = signals
            /\ ~Registered(active_processes', id)]_vars

\* kill_process returned False while a process is registered, the history is
\* not empty and a session exists
C8_Witness ==
  /\ \E k \in Killers : kpc[k] = "false"
  /\ \E e \in Slots : RegisteredProcess(e)
  /\ Len(execution_history) > 0
  /\ Len(sessionObjs) > 0

\* C9: the step on which a call returns a result appends that result to the
\* history as its last element, and the length of the history is the number
\* of results returned so far.
ResultsReturned == {e \in Slots : res[e].kind = "result"}

C9_HistoryAppend ==
  [][/\ \A e \in Slots :
          (pc[e] # "done" /\ pc'[e] = "done")
            => execution_history' = Append(execution_history, res'[e])
     /\ Len(execution_history') = Cardinality(ResultsReturned')]_vars

\* two calls were in flight together and the one made later returned first
C9_Witness ==
  /\ Len(execution_history) = 2
  /\ res[1].kind = "result" /\ res[2].kind = "result"
  /\ res[1] # res[2]
  /\ execution_history = <<res[2], res[1]>>

\* C10: get_execution_history(limit) with limit >= 0 returns the last
\* min(limit, len(history)) results in their order (nothing for limit = 0) and
\* leaves the history as it was.
Min(a, b) == IF a < b THEN a ELSE b

C10_LastLimitResults ==
  view.limit >= 0
    => LET n == Min(view.limit, Len(execution_history)) IN
       /\ Len(view.value) = n
       /\ view.value = SubSeq(execution_history,
                              Len(execution_history) - n + 1,
                              Len(execution_history))

\* C11: an execute_in_session call whose session id maps to no session is
\* refused with "Session not found" on the step on which it is made: no temp
\* file is written, no process is spawned or registered, and neither the
\* engine's history nor any session's history changes.
C11_UnknownSessionRefused ==
  [][\A e \in Execs :
       (pc[e] = "idle" /\ pc'[e] # "idle" /\ ~Entered(e)')
         => /\ res'[e] = Raised("Session not found")
            /\ pc'[e] = "raised"
            /\ fileWrites'[e] = 0
            /\ files' = files
            /\ pstate'[e] = "none"
            /\ active_processes' = active_processes
            /\ execution_history' = execution_history
            /\ sessionObjs' = sessionObjs]_vars

\* a call was refused while a session with a result in its history exists
C11_Witness ==
  \E e \in Execs :
    /\ res[e] = Raised("Session not found")
    /\ fileWrites[e] = 0
    /\ pstate[e] = "none"
    /\ \E s \in 1..Len(sessionObjs) : sessionObjs[s].execution_history # <<>>

\* C12: a get_session_info call with a session id that maps to no session
\* fails: it raises the session-not-found error that execute_in_session
\* raises, and returns no value.
C12_InfoOfUnknownSessionRaises ==
  [][\A session_id \in SessionIds :
       (get_session_info(session_id)
          /\ ~Registered(interactive_sessions, session_id))
         => info' = [NoInfo EXCEPT !.kind = "raised",
                                   !.error = "Session not found"]]_vars

\* C13: any two sessions ever created have different session ids and
\* different working directories, however quickly one
\* start_interactive_session call follows the other.
C13_SessionIdsAndDirsDiffer ==
  \A s1, s2 \in 1..Len(sessionObjs) :
    s1 # s2
      => /\ sessionObjs[s1].session_id # sessionObjs[s2].session_id
         /\ sessionObjs[s1].working_directory # sessionObjs[s2].working_directory

\* C14: every result in a session's history that comes from a process that
\* was spawned (it completed or timed out) comes from a process that ran in
\* the session's own working directory: the result's working_directory, which
\* is the cwd the process was given, is the directory stored in the session.
C14_RunsInSessionDirectory ==
  \A s \in 1..Len(sessionObjs) :
    \A i \in 1..Len(sessionObjs[s].execution_history) :
      sessionObjs[s].execution_history[i].stderr.kind \in {"proc", "timeout"}
        => sessionObjs[s].execution_history[i].working_directory
             = sessionObjs[s].working_directory

\* what the limit makes of text, with the marker of its stream
Capped(text, limited, marker) ==
  IF Len(text) <= max_output_size
    THEN limited = text
    ELSE /\ Len(limited) = max_output_size + Len(marker)
         /\ SubSeq(limited, 1, max_output_size) = SubSeq(text, 1, max_output_size)
         /\ SubSeq(limited, max_output_size + 1, Len(limited)) = marker

\* C15: stdout and stderr are limited independently, each with the marker of
\* its stream ("\n... [Output truncated]", "\n... [Error output truncated]"):
\* an output of at most max_output_size characters is reported unchanged, a
\* longer one as its first max_output_size characters followed by the marker,
\* max_output_size + len(marker) characters in all; what one stream is
\* reported as depends on that stream's output alone.
C15_OutputLimit ==
  capture.limited
    => /\ Capped(capture.out, capture.stdout, OutputMarker)
       /\ Capped(capture.err, capture.stderr, ErrorMarker)

\* stdout was cut and stderr, of exactly max_output_size characters, was not
C15_Witness ==
  /\ capture.limited
  /\ Len(capture.out) > max_output_size
  /\ Len(capture.stdout) = max_output_size + Len(OutputMarker)
  /\ Len(capture.err) = max_output_size
  /\ capture.stderr = capture.err

\* C16: no kill_process call ever ends by raising, whatever the executions
\* do while it waits for the process to exit.
C16_KillNeverRaises == \A k \in Killers : kpc[k] # "raised"

\* C17: once a call has its result (or has raised) the registry holds no
\* entry for its process, and when no call is in flight the registry is empty.
C17_NoEntryOutlivesExecution ==
  /\ \A e \in Slots : Over(e) => ~RegisteredProcess(e)
  /\ (\A e \in Slots : ~InFlight(e)) => \A id \in Times : active_processes[id] = 0

\* no call is in flight, and one that completed and one that timed out and
\* had to be killed are over
C17_Witness ==
  /\ \A e \in Slots : ~InFlight(e)
  /\ \E e \in Slots : pc[e] = "done" /\ pstate[e] = "exited"
  /\ \E e \in Slots : pc[e] = "done" /\ pstate[e] = "killed"
  /\ \A id \in Times : active_processes[id] = 0

\* C18: while a call awaits its running process (from registration until the
\* result), the registry maps the call's own process id to the call's own
\* process, however many calls are in flight.
C18_RegisteredUnderOwnId ==
  \A e \in Slots :
    (pc[e] \in {"waiting", "grace"} /\ pstate[e] = "running")
      => active_processes[frame[e].process_id] = e

\* C19: when an execute_code call finds the candidate name of its temp file
\* and every counter-suffixed variant up to the retry cap taken, it fails with
\* the resource-exhausted error and writes nothing; otherwise the file it
\* writes is one that did not exist.
C19_BoundedRetryFails ==
  [][\A e \in Slots :
       (pc[e] = "idle" /\ Entered(e)')
         => LET temp_file == frame'[e].temp_file IN
            IF \A counter \in 0..MaxCounter :
                 TempName(now, temp_file[2], counter, temp_file[4]) \in files
              THEN /\ res'[e] = Raised("Resource exhausted")
                   /\ fileWrites'[e] = 0
                   /\ files' = files
              ELSE temp_file \notin files]_vars

\* C20 as stated: in every session history the results of completed
\* processes stand in the order in which their calls were made (the calls are
\* numbered in that order, and a completed process reports its call's number).
C20_CallOrder ==
  \A s \in 1..Len(sessionObjs) :
    LET h == sessionObjs[s].execution_history IN
    \A i, j \in 1..Len(h) :
      (i < j /\ h[i].stderr.kind = "proc" /\ h[j].stderr.kind = "proc")
        => h[i].stdout < h[j].stdout

\* C20, amended: the result of an execute_in_session call is appended to the
\* end of the history of the session dict the call holds on the step on which
\* the call returns it, and no other session history changes: a session
\* history is in the order in which the calls complete.
C20_CompletionOrder ==
  [][\A e \in Execs :
       (~Over(e) /\ pc'[e] = "done")
         => \E s \in 1..Len(sessionObjs) :
              /\ frame[e].session \in {0, s}
              /\ sessionObjs' =
                   [sessionObjs EXCEPT ![s].execution_history = Append(@, res'[e])]]_vars

\* two calls of one session were in flight together and the later one
\* completed first
C20_Witness ==
  \E s \in 1..Len(sessionObjs) :
    LET h == sessionObjs[s].execution_history IN
    /\ Len(h) = 2
    /\ h[1].stderr.kind = "proc" /\ h[1].stdout = 2
    /\ h[2].stderr.kind = "proc" /\ h[2].stdout = 1

IsPrefix(a, b) == Len(a) <= Len(b) /\ SubSeq(b, 1, Len(a)) = a

\* C21: on every step, a session id that maps to a session still maps to one,
\* the language reported for it is the same, and its history extends the
\* history it had.
C21_SessionKept ==
  [][\A id \in Times :
       Registered(interactive_sessions, id)
         => /\ Registered(interactive_sessions', id)
            /\ sessionObjs'[interactive_sessions'[id]].language
                 = sessionObjs[interactive_sessions[id]].language
            /\ IsPrefix(sessionObjs[interactive_sessions[id]].execution_history,
                        sessionObjs'[interactive_sessions'[id]].execution_history)]_vars

\* C22: a call with a spawned process ends on one step that produces one
\* result: from the wait for a process that has exited, the result with the
\* process's exit code and success exactly when the code is 0; after the
\* deadline, the timeout result.  It is appended to the history once, a call
\* that is over keeps its result, and the history holds exactly one result
\* for each call that returned one.
C22_ExactlyOneResult ==
  [][/\ \A e \in Slots :
          /\ (InFlight(e) /\ ~InFlight(e)')
               => /\ pc'[e] = "done"
                  /\ res'[e].kind = "result"
                  /\ execution_history' = Append(execution_history, res'[e])
                  /\ IF pc[e] = "waiting"
                       THEN /\ pstate[e] \in {"exited", "killed"}
                            /\ res'[e].exit_code = returncode[e]
                            /\ res'[e].success = (returncode[e] = 0)
                            /\ res'[e].stderr.kind = "proc"
                       ELSE /\ pc[e] = "grace"
                            /\ IsTimeoutResult(res'[e])
                            /\ res'[e].exit_code = 0 - 1
                            /\ ~res'[e].success
          /\ Over(e) => (pc'[e] = pc[e] /\ res'[e] = res[e])
     /\ Len(execution_history') = Cardinality({e \in Slots : pc'[e] = "done"})]_vars

\* one call returned a completed result with a nonzero exit code, another the
\* timeout result
C22_Witness ==
  /\ \E e \in Slots : /\ pc[e] = "done"
                      /\ res[e].stderr.kind = "proc"
                      /\ res[e].exit_code = 1
                      /\ ~res[e].success
  /\ \E e \in Slots : pc[e] = "done" /\ IsTimeoutResult(res[e])
  /\ Len(execution_history) = 2

\* C23: every call that was made is eventually over, with a result or an
\* error, whatever its process does: also when the process never exits and
\* ignores SIGTERM.
C23_CallFinishes == \A e \in Execs : (pc[e] # "idle") ~> Over(e)

\* every call is over, and the process of one of them ignored SIGTERM until
\* the end of the grace wait and was killed
C23_Witness ==
  /\ \A e \in Execs : Over(e)
  /\ \E e \in Execs : /\ signals[e] = <<"TERM", "KILL">>
                      /\ pstate[e] = "killed"
                      /\ IsTimeoutResult(res[e])

Sent(p, sig) == \E i \in 1..Len(signals[p]) : signals[p][i] = sig
\* the timeout handler of call p, or a kill_process call aimed at process p,
\* starts its wait for the exit on this step
GraceStarts(p) ==
  \/ pc[p] = "waiting" /\ pc'[p] = "grace"
  \/ \E k \in Killers : kpc[k] # "wait" /\ kpc'[k] = "wait" /\ kframe'[k].process = p
\* ... or ends it
GraceEnds(p) ==
  \/ pc[p] = "grace" /\ pc'[p] # "grace"
  \/ \E k \in Killers : kpc[k] = "wait" /\ kpc'[k] # "wait" /\ kframe[k].process = p

\* C24: the timeout handler and kill_process escalate alike, with the same
\* wait of 5 seconds: a process is sent SIGTERM on the step that starts the
\* wait for its exit, and SIGKILL only on the step that ends such a wait, only
\* if it is still running then, and only after a SIGTERM; a wait that ends
\* with the process gone sends nothing.
C24_TerminateThenKill ==
  [][/\ TimeoutGrace = KillGrace
     /\ \A p \in Slots :
          /\ GraceStarts(p) => signals'[p] = Append(signals[p], "TERM")
          /\ GraceEnds(p) =>
               IF pstate[p] = "running"
                 THEN signals'[p] = Append(signals[p], "KILL") /\ Sent(p, "TERM")
                 ELSE signals'[p] = signals[p]
          /\ signals'[p] # signals[p] => (GraceStarts(p) \/ GraceEnds(p))]_vars

\* on the timeout path a process exited within the wait and got no SIGKILL;
\* on the kill_process path another ignored SIGTERM and was killed
C24_Witness ==
  /\ \E p \in Slots : /\ pc[p] = "done" /\ IsTimeoutResult(res[p])
                      /\ signals[p] = <<"TERM">>
                      /\ pstate[p] = "exited"
  /\ \E k \in Killers : /\ kpc[k] = "true"
                        /\ signals[kframe[k].process] = <<"TERM", "KILL">>

\* C25: no call ends with the engine's failure result because the resource
\* limiter failed to apply a limit: its program was started all the same.
C25_LimiterFailureHarmless ==
  \A e \in Slots :
    pstate[e] = "SubprocessError"
      => ~(pc[e] = "done" /\ res[e].stderr.kind = "error" /\ res[e].exit_code = 0 - 2)

\* C26: the timeout a call races its process against is a positive number of
\* seconds, whatever timeout the caller passed.
C26_TimeoutPositive ==
  \A e \in Slots : InFlight(e) => frame[e].timeout > 0

\* C27: argv[0] of the command of every process the executor has spawned is
\* in allowed_commands, whichever entry point spawned it.
C27_SpawnedCommandsAllowed ==
  \A e \in Slots : InFlight(e) => frame[e].command[1] \in allowed_commands

\* C28: the dispatch of a language that has an entry in the command table
\* (in any spelling) never fails: _get_execution_command raises only for a
\* language the table does not have.
C28_TableLanguagesAllowed ==
  \A e \in Execs :
    pc[e] = "raised" => Lower(frame[e].language) \notin CommandLanguages

\* C29: after every step, each result in a session's history is in the
\* engine's history, which is at least as long as the history of any
\* session; and a step on which a call raises changes no history.
C29_SessionResultsInEngineHistory ==
  [][/\ \A s \in 1..Len(sessionObjs') :
          /\ Len(sessionObjs'[s].execution_history) <= Len(execution_history')
          /\ \A i \in 1..Len(sessionObjs'[s].execution_history) :
               \E j \in 1..Len(execution_history') :
                 execution_history'[j] = sessionObjs'[s].execution_history[i]
     /\ \A e \in Slots :
          (pc[e] = "idle" /\ pc'[e] = "raised")
            => /\ execution_history' = execution_history
               /\ sessionObjs' = sessionObjs]_vars

\* a session holds a result, which the engine's history holds too, and
\* another call has raised
C29_Witness ==
  /\ \E s \in 1..Len(sessionObjs) :
       /\ Len(sessionObjs[s].execution_history) = 1
       /\ execution_history = sessionObjs[s].execution_history
  /\ \E e \in Slots : pc[e] = "raised"

\* a kill_process call found the process of call p registered and sent it
\* SIGTERM
KillAimedAt(k, p) == kpc[k] \in {"wait", "true", "raised"} /\ kframe[k].process = p
\* the process died of a signal
EndedBySignal(p) ==
  /\ pstate[p] \in {"exited", "killed"}
  /\ returncode[p] \in {SignalExit("TERM"), SignalExit("KILL")}

====
